---- MODULE Spec2Model ----
(***************************************************************************)
(* Model of the data-access layer of the restaurant expense tracker:       *)
(* the static methods of User, Restaurant, Invoice and Expense, each a     *)
(* sequence of awaited SQL statements against one shared store.  Every     *)
(* await is a point where another call may run, so a method with several   *)
(* statements is a process with a position (calls[p].pc).                   *)
(*                                                                         *)
(* The store executes exactly the statements the methods send: a table is  *)
(* a set of rows, ids come from a per-table serial counter, and the store  *)
(* enforces no constraint of its own (the schema is not part of the        *)
(* sources modelled here).                                                 *)
(***************************************************************************)
EXTENDS Integers, FiniteSets, Sequences, TLC

VARIABLES users, restaurants, restaurants_users, invoices, categories,
          expenses, nextId, calls, result

vars == <<users, restaurants, restaurants_users, invoices, categories,
          expenses, nextId, calls, result>>

tables == <<users, restaurants, restaurants_users, invoices, categories, expenses>>

(***************************************************************************)
(* Bounds of the model.                                                    *)
(***************************************************************************)
\* rows ever inserted into one table (the serial id never exceeds it)
MaxRows == 2
\* calls that may be in flight at the same time
MaxCalls == 2
\* rows ever inserted into one table where every entity kind is registered
MaxChainRows == 1

Procs == 1..MaxCalls
Ids == 1..(MaxRows + 1)
ChainIds == 1..(MaxChainRows + 1)

BCRYPT_WORK_FACTOR == 12

(***************************************************************************)
(* Input values.  An email address is a sequence of characters so that     *)
(* toLowerCase() is computed, character by character.                      *)
(***************************************************************************)
EmailInputs == { <<"A", "@", "x">>, <<"a", "@", "x">>, <<"b", "@", "x">> }
Names == {"n1", "n2"}
Passwords == {"pw1", "pw2"}
Vendors == {"v1", "v2"}
InvoiceNos == {"i1"}

LowerChar(c) == CASE c = "A" -> "a"
                  [] c = "B" -> "b"
                  [] OTHER -> c

\* String.prototype.toLowerCase
ToLowerCase(s) == [i \in DOMAIN s |-> LowerChar(s[i])]

\* bcrypt.hash(password, workFactor): the hash determines the password it was
\* made from (field plain stands for that preimage, which the code never reads)
Hash(password, workFactor) == [alg |-> "bcrypt", cost |-> workFactor, plain |-> password]

\* bcrypt.compare(password, hash)
Compare(password, hash) == hash.plain = password

(***************************************************************************)
(* Outcomes of a call, as its caller observes them.                        *)
(***************************************************************************)
NoResult == [op |-> "none", args |-> <<>>, kind |-> "none", value |-> <<>>, msg |-> <<>>]

\* a normal return
Return(op, args, value) ==
    [op |-> op, args |-> args, kind |-> "return", value |-> value, msg |-> <<>>]

\* a thrown error of class kind
Throw(op, args, kind, msg) ==
    [op |-> op, args |-> args, kind |-> kind, value |-> <<>>, msg |-> msg]

Idle == [op |-> "idle", pc |-> "idle", args |-> <<>>]

InFlight(op) == Cardinality({p \in Procs : calls[p].op = op})

\* no call is in flight
Quiet == \A p \in Procs : calls[p] = Idle

\* the table takes one more row, counting the inserts already in flight, without
\* its serial id exceeding cap
Room(table, op, cap) == nextId[table] + InFlight(op) <= cap

Init ==
    /\ users = {}
    /\ restaurants = {}
    /\ restaurants_users = {}
    /\ invoices = {}
    /\ categories = {}
    /\ expenses = {}
    /\ nextId = [users |-> 1, restaurants |-> 1, invoices |-> 1,
                 categories |-> 1, expenses |-> 1]
    /\ calls = [p \in Procs |-> Idle]
    /\ result = NoResult

(***************************************************************************)
(* helpers/checkExist                                                      *)
(***************************************************************************)
checkUserExists(id) == \E u \in users : u.id = id
checkRestaurantExists(id) == \E r \in restaurants : r.id = id
checkInvoiceExists(id) == \E i \in invoices : i.id = id

(***************************************************************************)
(* models/restaurant_user, the join entity {restaurantId, userId, isOwner}  *)
(***************************************************************************)
\* Restaurant_User.register: the membership row, written when both ends exist
Restaurant_User_register(restaurantId, userId, isOwner) ==
    IF checkRestaurantExists(restaurantId) /\ checkUserExists(userId)
    THEN restaurants_users \cup
            {[restaurantId |-> restaurantId, userId |-> userId, isOwner |-> isOwner]}
    ELSE restaurants_users

getAllUserRestaurants(userId) == {ru \in restaurants_users : ru.userId = userId}

getAllRestaurantUsers(restaurantId) ==
    {ru \in restaurants_users : ru.restaurantId = restaurantId}

UserProfile(u) == [id |-> u.id, emailAddress |-> u.email_address,
                   firstName |-> u.first_name, lastName |-> u.last_name]

(***************************************************************************)
(* User                                                                    *)
(***************************************************************************)
\* SELECT ... FROM users WHERE email_address = $1
UsersByEmail(email) == {u \in users : u.email_address = email}

\* the row authenticate returns: user without its password property
DeletePassword(u) == [id |-> u.id, email_address |-> u.email_address,
                      firstName |-> u.first_name, lastName |-> u.last_name]

\* User.authenticate: one SELECT, rows[0] is any of the rows it returns
UserAuthenticate(emailAddress, password) ==
    LET rows == UsersByEmail(ToLowerCase(emailAddress))
        args == [emailAddress |-> emailAddress, password |-> password]
        unauthorized == Throw("User.authenticate", args, "Unauthorized",
                              <<"The entered email address (", ToLowerCase(emailAddress),
                                ") and password do not match.">>)
    IN  /\ IF rows = {}
           THEN result' = unauthorized
           ELSE \E user \in rows :
                   result' = IF Compare(password, user.password)
                             THEN Return("User.authenticate", args, DeletePassword(user))
                             ELSE unauthorized
        /\ UNCHANGED <<tables, nextId, calls>>

\* User.register, first statement: the duplicate check
UserRegisterCheck(p, emailAddress, firstName, lastName, password) ==
    LET args == [emailAddress |-> emailAddress, firstName |-> firstName,
                 lastName |-> lastName, password |-> password]
    IN  /\ calls[p] = Idle
        /\ Room("users", "User.register", MaxRows)
        /\ IF UsersByEmail(ToLowerCase(emailAddress)) # {}
           THEN /\ result' = Throw("User.register", args, "BadRequest",
                                   <<"The email address ", ToLowerCase(emailAddress),
                                     " is already associated with an existing account.">>)
                /\ UNCHANGED calls
           ELSE /\ calls' = [calls EXCEPT ![p] =
                               [op |-> "User.register", pc |-> "insert", args |-> args]]
                /\ UNCHANGED result
        /\ UNCHANGED <<tables, nextId>>

\* User.register, after the check: hash the password and INSERT
UserRegisterInsert(p) ==
    /\ calls[p].op = "User.register"
    /\ calls[p].pc = "insert"
    /\ LET a == calls[p].args
           row == [id |-> nextId.users,
                   email_address |-> ToLowerCase(a.emailAddress),
                   first_name |-> a.firstName,
                   last_name |-> a.lastName,
                   password |-> Hash(a.password, BCRYPT_WORK_FACTOR)]
       IN  /\ users' = users \cup {row}
           /\ nextId' = [nextId EXCEPT !.users = @ + 1]
           /\ result' = Return("User.register", a, UserProfile(row))
    /\ calls' = [calls EXCEPT ![p] = Idle]
    /\ UNCHANGED <<restaurants, restaurants_users, invoices, categories, expenses>>

\* User.update: checkUserExists, the duplicate check (by id), the UPDATE
UserUpdate(id, emailAddress, firstName, lastName) ==
    LET args == [id |-> id, emailAddress |-> emailAddress,
                 firstName |-> firstName, lastName |-> lastName]
        duplicateCheck == {u \in users : u.id = id}
    IN  /\ IF ~checkUserExists(id)
           THEN /\ result' = Throw("User.update", args, "NotFound",
                                   <<"There is no user with id ", id, ".">>)
                /\ UNCHANGED users
           ELSE IF \E r \in duplicateCheck : r.id # id
           THEN /\ result' = Throw("User.update", args, "BadRequest",
                                   <<"The email address ", ToLowerCase(emailAddress),
                                     " is already associated with an existing account.">>)
                /\ UNCHANGED users
           ELSE /\ users' = {IF u.id = id
                             THEN [u EXCEPT !.email_address = ToLowerCase(emailAddress),
                                            !.first_name = firstName,
                                            !.last_name = lastName]
                             ELSE u : u \in users}
                /\ result' = Return("User.update", args,
                                    [id |-> id, emailAddress |-> ToLowerCase(emailAddress),
                                     firstName |-> firstName, lastName |-> lastName])
        /\ UNCHANGED <<restaurants, restaurants_users, invoices, categories,
                       expenses, nextId, calls>>

\* User.remove: DELETE ... RETURNING id
UserRemove(id) ==
    /\ IF \E u \in users : u.id = id
       THEN /\ users' = {u \in users : u.id # id}
            /\ result' = Return("User.remove", [id |-> id], <<>>)
       ELSE /\ result' = Throw("User.remove", [id |-> id], "NotFound",
                               <<"There is no user with id ", id, ".">>)
            /\ UNCHANGED users
    /\ UNCHANGED <<restaurants, restaurants_users, invoices, categories,
                   expenses, nextId, calls>>

\* User.get: the user row, then its restaurants through the join rows; a join
\* row whose restaurant is gone makes restaurant undefined and r.id = restaurant.id throw
UserGet(id) ==
    LET rows == {u \in users : u.id = id}
        join == getAllUserRestaurants(id)
        Enrich(r) == LET restaurant == CHOOSE x \in restaurants : x.id = r.restaurantId
                     IN  [id |-> restaurant.id, name |-> restaurant.name,
                          email |-> restaurant.email, ownerId |-> restaurant.owner_id,
                          isOwner |-> r.isOwner]
    IN  /\ result' =
              IF rows = {}
              THEN Throw("User.get", [id |-> id], "NotFound",
                         <<"There is no user with the ID ", id, ".">>)
              ELSE IF \E r \in join : ~\E x \in restaurants : x.id = r.restaurantId
              THEN Throw("User.get", [id |-> id], "TypeError", <<>>)
              ELSE Return("User.get", [id |-> id],
                          [user |-> UserProfile(CHOOSE u \in rows : TRUE),
                           restaurants |-> {Enrich(r) : r \in join}])
        /\ UNCHANGED <<tables, nextId, calls>>

(***************************************************************************)
(* Restaurant                                                              *)
(***************************************************************************)
RestaurantRow(r) == [id |-> r.id, ownerId |-> r.owner_id, name |-> r.name, email |-> r.email]

\* Restaurant.register, first statement: checkUserExists(ownerId)
RestaurantRegisterCheck(p, ownerId, name, email) ==
    LET args == [ownerId |-> ownerId, name |-> name, email |-> email]
    IN  /\ calls[p] = Idle
        /\ Room("restaurants", "Restaurant.register", MaxRows)
        /\ IF ~checkUserExists(ownerId)
           THEN /\ result' = Throw("Restaurant.register", args, "NotFound",
                                   <<"There is no user with id ", ownerId, ".">>)
                /\ UNCHANGED calls
           ELSE /\ calls' = [calls EXCEPT ![p] =
                               [op |-> "Restaurant.register", pc |-> "insert", args |-> args]]
                /\ UNCHANGED result
        /\ UNCHANGED <<tables, nextId>>

\* Restaurant.register, the INSERT; Restaurant_User.register is then called and
\* not awaited: the restaurant is returned while the membership is still to be written
RestaurantRegisterInsert(p) ==
    /\ calls[p].op = "Restaurant.register"
    /\ calls[p].pc = "insert"
    /\ LET a == calls[p].args
           adjustedEmail == IF a.email # <<>> THEN ToLowerCase(a.email) ELSE a.email
           row == [id |-> nextId.restaurants, owner_id |-> a.ownerId,
                   name |-> a.name, email |-> adjustedEmail]
       IN  /\ restaurants' = restaurants \cup {row}
           /\ nextId' = [nextId EXCEPT !.restaurants = @ + 1]
           /\ result' = Return("Restaurant.register", a, RestaurantRow(row))
           /\ calls' = [calls EXCEPT ![p] =
                          [op |-> "Restaurant_User.register", pc |-> "insert",
                           args |-> [restaurantId |-> row.id, userId |-> a.ownerId,
                                     isOwner |-> TRUE]]]
    /\ UNCHANGED <<users, restaurants_users, invoices, categories, expenses>>

\* the membership write started by Restaurant.register; nobody observes its outcome
RestaurantUserRegister(p) ==
    /\ calls[p].op = "Restaurant_User.register"
    /\ LET a == calls[p].args
       IN  restaurants_users' = Restaurant_User_register(a.restaurantId, a.userId, a.isOwner)
    /\ calls' = [calls EXCEPT ![p] = Idle]
    /\ UNCHANGED <<users, restaurants, invoices, categories, expenses, nextId, result>>

\* Restaurant.get: the restaurant row, then its users through the join rows
RestaurantGet(id) ==
    LET rows == {r \in restaurants : r.id = id}
        join == getAllRestaurantUsers(id)
        Enrich(u) == LET user == CHOOSE x \in users : x.id = u.userId
                     IN  [id |-> user.id, firstName |-> user.first_name,
                          lastName |-> user.last_name, emailAddress |-> user.email_address,
                          isOwner |-> u.isOwner]
    IN  /\ result' =
              IF rows = {}
              THEN Return("Restaurant.get", [id |-> id], "NotFound")
              ELSE IF \E u \in join : ~\E x \in users : x.id = u.userId
              THEN Throw("Restaurant.get", [id |-> id], "TypeError", <<>>)
              ELSE Return("Restaurant.get", [id |-> id],
                          [restaurant |-> RestaurantRow(CHOOSE r \in rows : TRUE),
                           users |-> {Enrich(u) : u \in join}])
        /\ UNCHANGED <<tables, nextId, calls>>

\* Restaurant.remove: DELETE ... RETURNING id
RestaurantRemove(id) ==
    /\ IF \E r \in restaurants : r.id = id
       THEN /\ restaurants' = {r \in restaurants : r.id # id}
            /\ result' = Return("Restaurant.remove", [id |-> id], <<>>)
       ELSE /\ result' = Throw("Restaurant.remove", [id |-> id], "NotFound",
                               <<"There is no restaurant with id ", id, ".">>)
            /\ UNCHANGED restaurants
    /\ UNCHANGED <<users, restaurants_users, invoices, categories,
                   expenses, nextId, calls>>

(***************************************************************************)
(* Invoice                                                                 *)
(***************************************************************************)
InvoiceRow(i) == [id |-> i.id, restaurantId |-> i.restaurant_id,
                  invoice |-> i.invoice, vendor |-> i.vendor]

\* Invoice.register, first statement: checkRestaurantExists(restaurantId)
InvoiceRegisterCheck(p, restaurantId, invoice, vendor) ==
    LET args == [restaurantId |-> restaurantId, invoice |-> invoice, vendor |-> vendor]
    IN  /\ calls[p] = Idle
        /\ Room("invoices", "Invoice.register", MaxRows)
        /\ IF ~checkRestaurantExists(restaurantId)
           THEN /\ result' = Throw("Invoice.register", args, "NotFound",
                                   <<"There is no restaurant with id ", restaurantId, ".">>)
                /\ UNCHANGED calls
           ELSE /\ calls' = [calls EXCEPT ![p] =
                               [op |-> "Invoice.register", pc |-> "duplicateCheck",
                                args |-> args]]
                /\ UNCHANGED result
        /\ UNCHANGED <<tables, nextId>>

\* Invoice.register, second statement: the duplicate check on the triple
InvoiceRegisterDuplicateCheck(p) ==
    /\ calls[p].op = "Invoice.register"
    /\ calls[p].pc = "duplicateCheck"
    /\ LET a == calls[p].args
           rows == {i \in invoices : /\ i.restaurant_id = a.restaurantId
                                     /\ i.vendor = a.vendor
                                     /\ i.invoice = a.invoice}
       IN  IF rows # {}
           THEN /\ result' = Throw("Invoice.register", a, "BadRequest",
                                   <<"Invoice already exists.">>)
                /\ calls' = [calls EXCEPT ![p] = Idle]
           ELSE /\ calls' = [calls EXCEPT ![p].pc = "insert"]
                /\ UNCHANGED result
    /\ UNCHANGED <<tables, nextId>>

\* Invoice.register, the INSERT
InvoiceRegisterInsert(p) ==
    /\ calls[p].op = "Invoice.register"
    /\ calls[p].pc = "insert"
    /\ LET a == calls[p].args
           row == [id |-> nextId.invoices, restaurant_id |-> a.restaurantId,
                   invoice |-> a.invoice, vendor |-> a.vendor]
       IN  /\ invoices' = invoices \cup {row}
           /\ nextId' = [nextId EXCEPT !.invoices = @ + 1]
           /\ result' = Return("Invoice.register", a, InvoiceRow(row))
    /\ calls' = [calls EXCEPT ![p] = Idle]
    /\ UNCHANGED <<users, restaurants, restaurants_users, categories, expenses>>

\* Invoice.update: checkInvoiceExists, then the UPDATE of invoice and vendor
InvoiceUpdate(id, invoice, vendor) ==
    LET args == [id |-> id, invoice |-> invoice, vendor |-> vendor]
    IN  /\ IF ~checkInvoiceExists(id)
           THEN /\ result' = Throw("Invoice.update", args, "NotFound",
                                   <<"There is no invoice with id ", id, ".">>)
                /\ UNCHANGED invoices
           ELSE /\ invoices' = {IF i.id = id
                                THEN [i EXCEPT !.invoice = invoice, !.vendor = vendor]
                                ELSE i : i \in invoices}
                /\ result' = Return("Invoice.update", args,
                                    InvoiceRow([(CHOOSE i \in invoices : i.id = id)
                                                  EXCEPT !.invoice = invoice,
                                                         !.vendor = vendor]))
        /\ UNCHANGED <<users, restaurants, restaurants_users, categories,
                       expenses, nextId, calls>>

\* Invoice.remove: DELETE ... RETURNING id
InvoiceRemove(id) ==
    /\ IF \E i \in invoices : i.id = id
       THEN /\ invoices' = {i \in invoices : i.id # id}
            /\ result' = Return("Invoice.remove", [id |-> id], <<>>)
       ELSE /\ result' = Throw("Invoice.remove", [id |-> id], "NotFound",
                               <<"There is no invoice with id ", id, ".">>)
            /\ UNCHANGED invoices
    /\ UNCHANGED <<users, restaurants, restaurants_users, categories,
                   expenses, nextId, calls>>

(***************************************************************************)
(* Category (an external entity: a row {id, restaurantId})                 *)
(***************************************************************************)
CategoryRegister(restaurantId) ==
    /\ Room("categories", "Category.register", MaxRows)
    /\ IF ~checkRestaurantExists(restaurantId)
       THEN /\ result' = Throw("Category.register", [restaurantId |-> restaurantId],
                               "NotFound",
                               <<"There is no restaurant with id ", restaurantId, ".">>)
            /\ UNCHANGED <<categories, nextId>>
       ELSE LET row == [id |-> nextId.categories, restaurant_id |-> restaurantId]
            IN  /\ categories' = categories \cup {row}
                /\ nextId' = [nextId EXCEPT !.categories = @ + 1]
                /\ result' = Return("Category.register", [restaurantId |-> restaurantId],
                                    [id |-> row.id, restaurantId |-> restaurantId])
    /\ UNCHANGED <<users, restaurants, restaurants_users, invoices, expenses, calls>>

(***************************************************************************)
(* helpers/checkSameRestaurant: "ok", or the class of the error thrown     *)
(***************************************************************************)
\* the invoice and the category exist and belong to the same restaurant
checkInvoiceCategory(invoiceId, categoryId) ==
    LET inv == {i \in invoices : i.id = invoiceId}
        cat == {c \in categories : c.id = categoryId}
    IN  IF inv = {} \/ cat = {} THEN "NotFound"
        ELSE IF \E i \in inv, c \in cat : i.restaurant_id # c.restaurant_id THEN "BadRequest"
        ELSE "ok"

\* the expense, the invoice and the category exist and belong to the same restaurant
checkExpenseInvoiceCategory(expenseId, invoiceId, categoryId) ==
    LET exp == {e \in expenses : e.id = expenseId}
        inv == {i \in invoices : i.id = invoiceId}
    IN  IF exp = {} THEN "NotFound"
        ELSE IF checkInvoiceCategory(invoiceId, categoryId) # "ok"
        THEN checkInvoiceCategory(invoiceId, categoryId)
        ELSE IF \E e \in exp, i \in inv : e.restaurant_id # i.restaurant_id THEN "BadRequest"
        ELSE "ok"

(***************************************************************************)
(* Expense                                                                 *)
(***************************************************************************)
ExpenseRow(e) == [id |-> e.id, restaurantId |-> e.restaurant_id,
                  categoryId |-> e.category_id, invoiceId |-> e.invoice_id,
                  amount |-> e.amount]

\* Expense.register, first statement: checkRestaurantExists(restaurantId)
ExpenseRegisterCheck(p, restaurantId, categoryId, invoiceId, amount) ==
    LET args == [restaurantId |-> restaurantId, categoryId |-> categoryId,
                 invoiceId |-> invoiceId, amount |-> amount]
    IN  /\ calls[p] = Idle
        /\ Room("expenses", "Expense.register", MaxRows)
        /\ IF ~checkRestaurantExists(restaurantId)
           THEN /\ result' = Throw("Expense.register", args, "NotFound",
                                   <<"There is no restaurant with id ", restaurantId, ".">>)
                /\ UNCHANGED calls
           ELSE /\ calls' = [calls EXCEPT ![p] =
                               [op |-> "Expense.register", pc |-> "checkInvoiceCategory",
                                args |-> args]]
                /\ UNCHANGED result
        /\ UNCHANGED <<tables, nextId>>

\* Expense.register, second step: checkInvoiceCategory(invoiceId, categoryId)
ExpenseRegisterCheckInvoiceCategory(p) ==
    /\ calls[p].op = "Expense.register"
    /\ calls[p].pc = "checkInvoiceCategory"
    /\ LET a == calls[p].args
           check == checkInvoiceCategory(a.invoiceId, a.categoryId)
       IN  IF check # "ok"
           THEN /\ result' = Throw("Expense.register", a, check,
                                   <<"invoice ", a.invoiceId, " category ", a.categoryId>>)
                /\ calls' = [calls EXCEPT ![p] = Idle]
           ELSE /\ calls' = [calls EXCEPT ![p].pc = "insert"]
                /\ UNCHANGED result
    /\ UNCHANGED <<tables, nextId>>

\* Expense.register, the INSERT
ExpenseRegisterInsert(p) ==
    /\ calls[p].op = "Expense.register"
    /\ calls[p].pc = "insert"
    /\ LET a == calls[p].args
           row == [id |-> nextId.expenses, restaurant_id |-> a.restaurantId,
                   category_id |-> a.categoryId, invoice_id |-> a.invoiceId,
                   amount |-> a.amount]
       IN  /\ expenses' = expenses \cup {row}
           /\ nextId' = [nextId EXCEPT !.expenses = @ + 1]
           /\ result' = Return("Expense.register", a, ExpenseRow(row))
    /\ calls' = [calls EXCEPT ![p] = Idle]
    /\ UNCHANGED <<users, restaurants, restaurants_users, invoices, categories>>

\* Expense.update: checkExpenseInvoiceCategory on the caller's invoiceId, then
\* the UPDATE of category and amount
ExpenseUpdate(expenseId, invoiceId, categoryId, amount) ==
    LET args == [expenseId |-> expenseId, invoiceId |-> invoiceId,
                 categoryId |-> categoryId, amount |-> amount]
        check == checkExpenseInvoiceCategory(expenseId, invoiceId, categoryId)
    IN  /\ IF check # "ok"
           THEN /\ result' = Throw("Expense.update", args, check,
                                   <<"expense ", expenseId, " invoice ", invoiceId,
                                     " category ", categoryId>>)
                /\ UNCHANGED expenses
           ELSE /\ expenses' = {IF e.id = expenseId
                                THEN [e EXCEPT !.category_id = categoryId,
                                               !.amount = amount]
                                ELSE e : e \in expenses}
                /\ result' = Return("Expense.update", args,
                                    ExpenseRow([(CHOOSE e \in expenses : e.id = expenseId)
                                                  EXCEPT !.category_id = categoryId,
                                                         !.amount = amount]))
        /\ UNCHANGED <<users, restaurants, restaurants_users, invoices,
                       categories, nextId, calls>>

\* Expense.remove without its test of the deleted row: a missing id returns
\* like a stored one
ExpenseRemoveUnchecked(id) ==
    /\ expenses' = {e \in expenses : e.id # id}
    /\ result' = Return("Expense.remove", [id |-> id], <<>>)
    /\ UNCHANGED <<users, restaurants, restaurants_users, invoices,
                   categories, nextId, calls>>

\* Expense.remove: DELETE ... RETURNING id
ExpenseRemove(id) ==
    /\ IF \E e \in expenses : e.id = id
       THEN /\ expenses' = {e \in expenses : e.id # id}
            /\ result' = Return("Expense.remove", [id |-> id], <<>>)
       ELSE /\ result' = Throw("Expense.remove", [id |-> id], "NotFound",
                               <<"There is no expense with id ", id, ".">>)
            /\ UNCHANGED expenses
    /\ UNCHANGED <<users, restaurants, restaurants_users, invoices,
                   categories, nextId, calls>>

(***************************************************************************)
(* Specifications.  Each draws the calls' arguments from small sets.       *)
(***************************************************************************)
OneEmail == <<"a", "@", "x">>

\* the User methods, one call at a time
NextUser ==
    \/ \E e \in EmailInputs, pw \in Passwords : UserRegisterCheck(1, e, "n1", "n1", pw)
    \/ UserRegisterInsert(1)
    \/ Quiet /\ \E e \in EmailInputs, pw \in Passwords : UserAuthenticate(e, pw)
    \/ Quiet /\ \E id \in Ids, e \in EmailInputs, f \in Names, l \in Names :
                  UserUpdate(id, e, f, l)
    \/ Quiet /\ \E id \in Ids : UserRemove(id)
    \/ Quiet /\ \E id \in Ids : UserGet(id)

SpecUser == Init /\ [][NextUser]_vars

\* User.register alone, with up to MaxCalls calls in flight
NextRegister ==
    \/ \E p \in Procs, e \in EmailInputs, f \in Names, pw \in Passwords :
          UserRegisterCheck(p, e, f, "n1", pw)
    \/ \E p \in Procs : UserRegisterInsert(p)

SpecRegister == Init /\ [][NextRegister]_vars

\* users, restaurants and their memberships: registration and retrieval
NextRestaurant ==
    \/ \E p \in Procs : UserRegisterCheck(p, OneEmail, "n1", "n1", "pw1")
    \/ \E p \in Procs : UserRegisterInsert(p)
    \/ \E p \in Procs, ownerId \in Ids, email \in {<<>>, <<"B", "@", "x">>} :
          RestaurantRegisterCheck(p, ownerId, "n1", email)
    \/ \E p \in Procs : RestaurantRegisterInsert(p)
    \/ \E p \in Procs : RestaurantUserRegister(p)
    \/ \E id \in Ids : RestaurantGet(id)
    \/ \E id \in Ids : UserGet(id)

SpecRestaurant == Init /\ [][NextRestaurant]_vars

\* one call at a time: a user and restaurants, then Invoice.register, update, remove
NextInvoice ==
    \/ UserRegisterCheck(1, OneEmail, "n1", "n1", "pw1")
    \/ UserRegisterInsert(1)
    \/ RestaurantRegisterCheck(1, 1, "n1", <<>>)
    \/ RestaurantRegisterInsert(1)
    \/ RestaurantUserRegister(1)
    \/ \E r \in Ids, i \in InvoiceNos, v \in Vendors : InvoiceRegisterCheck(1, r, i, v)
    \/ InvoiceRegisterDuplicateCheck(1)
    \/ InvoiceRegisterInsert(1)
    \/ Quiet /\ \E id \in Ids, i \in InvoiceNos, v \in Vendors : InvoiceUpdate(id, i, v)
    \/ Quiet /\ \E id \in Ids : InvoiceRemove(id)

SpecInvoice == Init /\ [][NextInvoice]_vars

\* one call at a time: restaurants with invoices and categories, then
\* Expense.register and Expense.update
NextExpense ==
    \/ Room("users", "User.register", MaxChainRows)
         /\ UserRegisterCheck(1, OneEmail, "n1", "n1", "pw1")
    \/ UserRegisterInsert(1)
    \/ RestaurantRegisterCheck(1, 1, "n1", <<>>)
    \/ RestaurantRegisterInsert(1)
    \/ RestaurantUserRegister(1)
    \/ \E r \in Ids : InvoiceRegisterCheck(1, r, "i1", "v1")
    \/ InvoiceRegisterDuplicateCheck(1)
    \/ InvoiceRegisterInsert(1)
    \/ Quiet /\ \E r \in Ids : CategoryRegister(r)
    \/ \E r \in Ids, c \in Ids, i \in Ids :
          Room("expenses", "Expense.register", MaxChainRows)
            /\ ExpenseRegisterCheck(1, r, c, i, 10)
    \/ ExpenseRegisterCheckInvoiceCategory(1)
    \/ ExpenseRegisterInsert(1)
    \/ Quiet /\ \E e \in Ids, i \in Ids, c \in Ids : ExpenseUpdate(e, i, c, 20)

SpecExpense == Init /\ [][NextExpense]_vars

\* register and remove of every entity kind, with up to MaxCalls calls in flight
NextLifecycle ==
    \/ \E p \in Procs :
          Room("users", "User.register", MaxChainRows)
            /\ UserRegisterCheck(p, OneEmail, "n1", "n1", "pw1")
    \/ \E p \in Procs : UserRegisterInsert(p)
    \/ \E p \in Procs, o \in ChainIds :
          Room("restaurants", "Restaurant.register", MaxChainRows)
            /\ RestaurantRegisterCheck(p, o, "n1", <<>>)
    \/ \E p \in Procs : RestaurantRegisterInsert(p)
    \/ \E p \in Procs : RestaurantUserRegister(p)
    \/ \E p \in Procs, r \in ChainIds :
          Room("invoices", "Invoice.register", MaxChainRows)
            /\ InvoiceRegisterCheck(p, r, "i1", "v1")
    \/ \E p \in Procs : InvoiceRegisterDuplicateCheck(p)
    \/ \E p \in Procs : InvoiceRegisterInsert(p)
    \/ Room("categories", "Category.register", MaxChainRows) /\ CategoryRegister(1)
    \/ \E p \in Procs, i \in ChainIds :
          Room("expenses", "Expense.register", MaxChainRows)
            /\ ExpenseRegisterCheck(p, 1, 1, i, 10)
    \/ \E p \in Procs : ExpenseRegisterCheckInvoiceCategory(p)
    \/ \E p \in Procs : ExpenseRegisterInsert(p)
    \/ \E id \in ChainIds : UserRemove(id)
    \/ \E id \in ChainIds : RestaurantRemove(id)
    \/ \E id \in ChainIds : InvoiceRemove(id)
    \/ \E id \in ChainIds : ExpenseRemove(id)

SpecLifecycle == Init /\ [][NextLifecycle]_vars

\* one call at a time: a row of every entity kind, and remove of every kind
NextRemove ==
    \/ Room("users", "User.register", MaxChainRows)
         /\ UserRegisterCheck(1, OneEmail, "n1", "n1", "pw1")
    \/ UserRegisterInsert(1)
    \/ Room("restaurants", "Restaurant.register", MaxChainRows)
         /\ RestaurantRegisterCheck(1, 1, "n1", <<>>)
    \/ RestaurantRegisterInsert(1)
    \/ RestaurantUserRegister(1)
    \/ Room("invoices", "Invoice.register", MaxChainRows)
         /\ InvoiceRegisterCheck(1, 1, "i1", "v1")
    \/ InvoiceRegisterDuplicateCheck(1)
    \/ InvoiceRegisterInsert(1)
    \/ Quiet /\ Room("categories", "Category.register", MaxChainRows) /\ CategoryRegister(1)
    \/ Room("expenses", "Expense.register", MaxChainRows)
         /\ ExpenseRegisterCheck(1, 1, 1, 1, 10)
    \/ ExpenseRegisterCheckInvoiceCategory(1)
    \/ ExpenseRegisterInsert(1)
    \/ Quiet /\ \E id \in ChainIds : UserRemove(id)
    \/ Quiet /\ \E id \in ChainIds : RestaurantRemove(id)
    \/ Quiet /\ \E id \in ChainIds : InvoiceRemove(id)
    \/ Quiet /\ \E id \in ChainIds : ExpenseRemove(id)

SpecRemove == Init /\ [][NextRemove]_vars

(***************************************************************************)
(* Properties                                                              *)
(***************************************************************************)
\* C1: no two stored users have email addresses that are equal after
\* lowercasing, whatever the interleaving of User.register calls.
C1_EmailUniqueIgnoringCase ==
    \A u \in users, v \in users :
        ToLowerCase(u.email_address) = ToLowerCase(v.email_address) => u.id = v.id

\* C2: User.update of an existing user throws BadRequest and leaves the users
\* unchanged exactly when another user (a different id) holds the new email
\* address; otherwise it returns and the row carries the new email address,
\* first name and last name.
C2_UpdateRejectsForeignEmail ==
    [][\A id \in Ids, e \in EmailInputs, f \in Names, l \in Names :
          (UserUpdate(id, e, f, l) /\ checkUserExists(id)) =>
             IF \E u \in users : u.id # id /\ u.email_address = ToLowerCase(e)
             THEN result'.kind = "BadRequest" /\ users' = users
             ELSE /\ result'.kind = "return"
                  /\ \E u \in users' : /\ u.id = id
                                        /\ u.email_address = ToLowerCase(e)
                                        /\ u.first_name = f
                                        /\ u.last_name = l]_vars

\* C3: User.authenticate changes no stored state; for every stored user whose
\* email address matches ignoring case and whose stored hash matches the
\* password it returns that user's profile, without a password; when no stored
\* user has the email address, or none of them has the password, it throws
\* Unauthorized with a message that depends on the entered address only.
C3_AuthenticateContract ==
    [][\A e \in EmailInputs, pw \in Passwords :
          UserAuthenticate(e, pw) =>
             /\ UNCHANGED <<tables, nextId>>
             /\ \A u \in users :
                   (u.email_address = ToLowerCase(e) /\ Compare(pw, u.password)) =>
                      /\ result'.kind = "return"
                      /\ result'.value.id = u.id
                      /\ "password" \notin DOMAIN result'.value
             /\ (~\E u \in users : /\ u.email_address = ToLowerCase(e)
                                    /\ Compare(pw, u.password)) =>
                      /\ result'.kind = "Unauthorized"
                      /\ result'.msg = <<"The entered email address (", ToLowerCase(e),
                                         ") and password do not match.">>]_vars

\* C4: no two stored invoices have the same restaurant, vendor and invoice
\* identifier, after any sequence of Invoice.register, update and remove.
C4_InvoiceTripleUnique ==
    \A i \in invoices, j \in invoices :
        (/\ i.restaurant_id = j.restaurant_id
         /\ i.vendor = j.vendor
         /\ i.invoice = j.invoice) => i.id = j.id

\* C5: the category of every stored expense belongs to the restaurant of the
\* expense's invoice, after any sequence of Expense.register and Expense.update.
C5_ExpenseCategoryOfInvoiceRestaurant ==
    \A e \in expenses, i \in invoices, c \in categories :
        (i.id = e.invoice_id /\ c.id = e.category_id) =>
            c.restaurant_id = i.restaurant_id

\* C6: a Restaurant.get of a registered restaurant returns it with a users list
\* that holds its owner.
C6_GetShowsOwner ==
    (result.op = "Restaurant.get" /\ checkRestaurantExists(result.args.id)) =>
        /\ result.kind = "return"
        /\ \E r \in restaurants :
              /\ r.id = result.args.id
              /\ \E u \in result.value.users : u.id = r.owner_id

\* C7: User.get and Restaurant.get of an id with no stored row throw NotFound.
C7_GetAbsentThrowsNotFound ==
    /\ (result.op = "User.get" /\ ~checkUserExists(result.args.id)) =>
            result.kind = "NotFound"
    /\ (result.op = "Restaurant.get" /\ ~checkRestaurantExists(result.args.id)) =>
            result.kind = "NotFound"

\* C8: every stored restaurant's owner is a stored user, every stored invoice's
\* restaurant is a stored restaurant, and every stored expense's restaurant and
\* invoice are stored, whatever the interleaving of register and remove calls.
C8_ParentsStored ==
    /\ \A r \in restaurants : checkUserExists(r.owner_id)
    /\ \A i \in invoices : checkRestaurantExists(i.restaurant_id)
    /\ \A e \in expenses : /\ checkRestaurantExists(e.restaurant_id)
                            /\ checkInvoiceExists(e.invoice_id)

\* what remove(id) on a table must do: with a row of that id stored, delete
\* exactly that row and return; with none, change nothing and throw NotFound
\* with the id in the message
RemoveContract(before, after, others, id) ==
    /\ UNCHANGED others
    /\ IF \E r \in before : r.id = id
       THEN after = {r \in before : r.id # id} /\ result'.kind = "return"
       ELSE /\ after = before
            /\ result'.kind = "NotFound"
            /\ result'.msg[2] = id

\* C9: for User, Restaurant, Invoice and Expense, remove(id) of an id that is
\* not stored throws NotFound with a message naming the id and leaves every
\* row as it was; remove(id) of a stored id deletes exactly that row and returns.
C9_RemoveContract ==
    [][\A id \in ChainIds :
          /\ UserRemove(id) =>
                RemoveContract(users, users', <<restaurants, restaurants_users,
                               invoices, categories, expenses>>, id)
          /\ RestaurantRemove(id) =>
                RemoveContract(restaurants, restaurants', <<users, restaurants_users,
                               invoices, categories, expenses>>, id)
          /\ InvoiceRemove(id) =>
                RemoveContract(invoices, invoices', <<users, restaurants,
                               restaurants_users, categories, expenses>>, id)
          /\ ExpenseRemove(id) =>
                RemoveContract(expenses, expenses', <<users, restaurants,
                               restaurants_users, invoices, categories>>, id)]_vars

\* a remove of an id that is not stored has thrown while rows of every kind are stored
C9_Witness ==
    /\ result.op = "Expense.remove"
    /\ result.kind = "NotFound"
    /\ result.msg[2] = result.args.id
    /\ users # {} /\ restaurants # {} /\ invoices # {} /\ expenses # {}

\* C10: the restaurant of every stored expense is the restaurant of the
\* expense's invoice, after any sequence of Expense.register and Expense.update.
C10_ExpenseRestaurantOfInvoice ==
    \A e \in expenses, i \in invoices :
        i.id = e.invoice_id => e.restaurant_id = i.restaurant_id

====
